---- MODULE Spec2Model ----
(***************************************************************************)
(* Model of adafruit_macropad.MacroPad: construction (rotation key table,  *)
(* hardware set-up, MIDI channels), the key event queue, and the audio     *)
(* methods start_tone / stop_tone / play_tone / play_file that share the   *)
(* speaker-enable line and the SPEAKER pin.                                *)
(***************************************************************************)
EXTENDS Integers, Sequences, FiniteSets, TLC

VARIABLES
    constructed,   \* "no" before MacroPad(...) is called, then "ok" or "failed"
    rotation,      \* the rotation argument given to __init__
    key_pins,      \* self._key_pins: the KEYn numbers in logical order (<<>> when unset)
    hw,            \* hardware resources __init__ has acquired or written
    midi,          \* <<>> or <<[in_channel, out_channel]>> handed to adafruit_midi.MIDI
    keys_down,     \* physical keys (0..11) currently held down
    events,        \* self._keys.events: queue of [key_number, pressed]
    got,           \* <<>> or <<event>>: what the last events.get() returned
    encoder_position,  \* self._encoder.position, the raw decoder count
    encoder_read,  \* <<>> or <<value>>: what the last read of macropad.encoder returned
    audio,         \* the audio fields of self, see AudioInit
    pc,            \* position of the one application thread inside a blocking call
    last           \* the most recent API call: [op, arg, err, from], from being the
                   \* AudioMode it was made in

vars == <<constructed, rotation, key_pins, hw, midi, keys_down, events, got,
          encoder_position, encoder_read, audio, pc, last>>

encoderVars == <<encoder_position, encoder_read>>
inputVars == <<keys_down, events, got, encoderVars>>
ctorVars == <<constructed, rotation, key_pins, hw, midi>>

(***************************************************************************)
(* Bounds of the model.                                                    *)
(***************************************************************************)
MaxQueue == 2      \* events held in the key event queue before the model stops adding
MaxDown == 1       \* physical keys held down at the same time
MaxTurn == 2       \* detents the encoder is turned away from its starting position

(***************************************************************************)
(* Construction: MacroPad.__init__                                         *)
(***************************************************************************)
SupportedRotations == {0, 90, 180, 270}

\* rotation arguments tried, the four supported ones and two that are not
RotationInputs == SupportedRotations \cup {45, 999}

\* midi_in_channel arguments: a single channel number, or a tuple of them
MidiInInputs ==
    { [tuple |-> FALSE, ch |-> <<0>>],
      [tuple |-> FALSE, ch |-> <<1>>],
      [tuple |-> FALSE, ch |-> <<16>>],
      [tuple |-> TRUE,  ch |-> <<1, 2>>] }

MidiOutInputs == {0, 1, 16}

\* MIDI channel numbers as the caller counts them
MidiChannels == 1..16

\* physical keys the environment operates
KeyInputs == {0, 2, 3, 11}

\* A key table that lists KEY3 twice and never KEY12 (rotation 270).
KeyTableDuplicate(rot) ==
    CASE rot = 0   -> <<1, 2, 3, 4, 5, 6, 7, 8, 9, 10, 11, 12>>
      [] rot = 90  -> <<3, 6, 9, 12, 2, 5, 8, 11, 1, 4, 7, 10>>
      [] rot = 180 -> <<12, 11, 10, 9, 8, 7, 6, 5, 4, 3, 2, 1>>
      [] rot = 270 -> <<10, 7, 4, 1, 11, 8, 5, 2, 3, 9, 6, 3>>

\* A rotation-90 table with the first two entries exchanged.
KeyTableSwapped(rot) ==
    CASE rot = 0   -> <<1, 2, 3, 4, 5, 6, 7, 8, 9, 10, 11, 12>>
      [] rot = 90  -> <<6, 3, 9, 12, 2, 5, 8, 11, 1, 4, 7, 10>>
      [] rot = 180 -> <<12, 11, 10, 9, 8, 7, 6, 5, 4, 3, 2, 1>>
      [] rot = 270 -> <<10, 7, 4, 1, 11, 8, 5, 2, 12, 9, 6, 3>>

\* self._key_pins for a supported rotation: position i+1 holds n when logical
\* key i is wired to board.KEYn.
KeyTable(rot) ==
    CASE rot = 0   -> <<1, 2, 3, 4, 5, 6, 7, 8, 9, 10, 11, 12>>
      [] rot = 90  -> <<3, 6, 9, 12, 2, 5, 8, 11, 1, 4, 7, 10>>
      [] rot = 180 -> <<12, 11, 10, 9, 8, 7, 6, 5, 4, 3, 2, 1>>
      [] rot = 270 -> <<10, 7, 4, 1, 11, 8, 5, 2, 12, 9, 6, 3>>

\* The hardware __init__ touches, in the order it touches it.
HwOrder ==
    <<"keys", "encoder", "switch", "display", "speaker_enable",
      "pixels", "led", "hid", "midi">>

HwUpTo(n) == { HwOrder[i] : i \in 1..n }

\* As Acquired, with the rotation looked at only once the display is reached.
AcquiredLateCheck(rot, midi_in) ==
    IF rot \notin SupportedRotations THEN HwUpTo(3)
    ELSE IF midi_in.tuple THEN HwUpTo(Len(HwOrder) - 1)
    ELSE HwUpTo(Len(HwOrder))

\* The hardware acquired or written when __init__ returns or raises: nothing
\* when the rotation is refused, everything before the MIDI object when
\* "midi_in_channel - 1" raises TypeError on a tuple, and everything otherwise.
Acquired(rot, midi_in) ==
    IF rot \notin SupportedRotations THEN {}
    ELSE IF midi_in.tuple THEN HwUpTo(Len(HwOrder) - 1)
    ELSE HwUpTo(Len(HwOrder))

\* The exception __init__ raises, "none" when it returns.
ConstructError(rot, midi_in) ==
    IF rot \notin SupportedRotations THEN "ValueError"
    ELSE IF midi_in.tuple THEN "TypeError"
    ELSE "none"

\* The audio fields right after construction.
AudioInit ==
    [ speaker_enable   |-> FALSE,   \* self._speaker_enable.value
      sample           |-> "None",  \* self._sample: "None" or "PWMAudioOut"
      playing          |-> FALSE,   \* self._sample.playing
      plays            |-> 0,       \* play(loop=True) calls made on self._sample
      sine_wave        |-> <<>>,    \* self._sine_wave: <<>> or <<its length>>
      sine_wave_sample |-> <<>>,    \* self._sine_wave_sample: <<>> or <<its sample_rate>>
      file             |-> "None" ] \* play_file's local audio: "None", "PWMAudioOut", "playing"

\* The state the spec calls AudioMode, read off the fields.
AudioMode(a) ==
    IF a.file = "playing" THEN "FileActive"
    ELSE IF a.sample # "None" /\ a.playing THEN "ToneActive"
    ELSE "Idle"

Construct(rot, midi_in, midi_out) ==
    /\ constructed = "no"
    /\ rotation' = rot
    /\ hw' = Acquired(rot, midi_in)
    /\ key_pins' = IF rot \in SupportedRotations THEN KeyTable(rot) ELSE <<>>
    /\ midi' = IF ConstructError(rot, midi_in) = "none"
               THEN << [in_channel |-> midi_in.ch[1] - 1, out_channel |-> midi_out - 1] >>
               ELSE <<>>
    /\ constructed' = IF ConstructError(rot, midi_in) = "none" THEN "ok" ELSE "failed"
    /\ last' = [op |-> "__init__", arg |-> rot, err |-> ConstructError(rot, midi_in),
                from |-> AudioMode(audio)]
    /\ encoder_position' = 0
    /\ UNCHANGED <<keys_down, events, got, encoder_read, audio, pc>>

(***************************************************************************)
(* Keys: keypad.Keys(self._key_pins, ...) and MacroPad.keys                *)
(***************************************************************************)
\* Physical key k (0..11) is the key wired to board.KEY(k+1).

\* The key number reported without going through the key table.
KeyNumberUntranslated(pins, k) == k

\* keypad.Keys numbers its keys by their position in the pin tuple: the event of
\* physical key k carries the 0-based index at which KEY(k+1) is listed.
KeyNumber(pins, k) == CHOOSE i \in 0..(Len(pins) - 1) : pins[i + 1] = k + 1

\* A physical key goes down or up; the keypad scanner queues the transition.
KeyTransition(k) ==
    /\ constructed = "ok"
    /\ Len(events) < MaxQueue
    /\ k \in keys_down \/ Cardinality(keys_down) < MaxDown
    /\ keys_down' = IF k \in keys_down THEN keys_down \ {k} ELSE keys_down \cup {k}
    /\ events' = Append(events, [key_number |-> KeyNumber(key_pins, k),
                                 pressed |-> k \notin keys_down])
    /\ UNCHANGED <<ctorVars, got, encoderVars, audio, pc, last>>

\* macropad.keys.events.get(): the oldest queued event, or None.
GetEvent ==
    /\ constructed = "ok"
    /\ pc = "ready"
    /\ got' = IF events = <<>> THEN <<>> ELSE <<Head(events)>>
    /\ events' = IF events = <<>> THEN <<>> ELSE Tail(events)
    /\ last' = [op |-> "events.get", arg |-> 0, err |-> "none", from |-> AudioMode(audio)]
    /\ UNCHANGED <<ctorVars, keys_down, encoderVars, audio, pc>>

(***************************************************************************)
(* Encoder: rotaryio.IncrementalEncoder and MacroPad.encoder               *)
(***************************************************************************)
\* raw steps the decoder counts in one move
EncoderDeltas == {0 - 1, 1}

\* The raw position handed through without the inversion.
EncoderNotInverted(position) == position

\* The encoder property: "return self._encoder.position * -1".
Encoder(position) == position * (0 - 1)

\* The knob turns by d; the decoder adds d to its position.
EncoderTurn(d) ==
    /\ constructed = "ok"
    /\ encoder_position + d \in (0 - MaxTurn)..MaxTurn
    /\ encoder_position' = encoder_position + d
    /\ UNCHANGED <<ctorVars, keys_down, events, got, encoder_read, audio, pc, last>>

\* The application reads macropad.encoder.
ReadEncoder ==
    /\ constructed = "ok"
    /\ pc = "ready"
    /\ encoder_read' = << Encoder(encoder_position) >>
    /\ last' = [op |-> "encoder", arg |-> 0, err |-> "none", from |-> AudioMode(audio)]
    /\ UNCHANGED <<ctorVars, keys_down, events, got, encoder_position, audio, pc>>

(***************************************************************************)
(* Audio: _generate_sample, start_tone, stop_tone, play_tone, play_file    *)
(***************************************************************************)
DefaultLength == 100        \* "length = 100" in start_tone
RateCeiling == 350000       \* the sample-rate ceiling start_tone compares against
RawSampleRate == 8000       \* sample_rate of a new audiocore.RawSample

\* frequency arguments tried: not positive, audio range, and above the ceiling
FrequencyInputs == {-1, 0, 440, 880, 5000, 400000}

\* the frequencies among them for which the buffer is not empty
InRangeFrequencies == {f \in FrequencyInputs : f > 0 /\ f <= RateCeiling}

\* file_name arguments tried, named by their position in this list
FileNames == <<"tone.wav", "missing.wav">>
FileInputs == 1..Len(FileNames)

\* open(file_name, "rb") and audiocore.WaveFile succeed on this file
Playable(f) == FileNames[f] = "tone.wav"

\* board.SPEAKER is claimed by a PWMAudioOut that has not been deinit()ed.
PinInUse(a) == a.sample # "None" \/ a.file # "None"

\* The buffer length start_tone asks for.
ToneLength(frequency) ==
    IF DefaultLength * frequency > RateCeiling
    THEN RateCeiling \div frequency
    ELSE DefaultLength

\* _generate_sample(length): nothing when self._sample exists, otherwise the
\* waveform, the PWMAudioOut on board.SPEAKER and the RawSample are made.
GenerateSample(a, length) ==
    IF a.sample # "None" THEN a
    ELSE [a EXCEPT !.sine_wave = <<length>>,
                   !.sample = "PWMAudioOut",
                   !.playing = FALSE,
                   !.plays = 0,
                   !.sine_wave_sample = <<RawSampleRate>>]

\* The sample rate start_tone programs: int(len(self._sine_wave) * frequency).
ProgrammedRate(a, frequency) == a.sine_wave[1] * frequency

\* start_tone up to and including _generate_sample.
ToneSetup(a, frequency) ==
    GenerateSample([a EXCEPT !.speaker_enable = TRUE], ToneLength(frequency))

\* What audiocore / audiopwmio may do with the values start_tone hands them.
\* A positive sample rate is accepted.  A sample rate of zero or below is
\* outside what RawSample.sample_rate and PWMAudioOut.play are defined for:
\* the library may accept it, or raise at the assignment, or raise in play()
\* (which is reached only when nothing is playing yet).
LibraryOutcomes(a, frequency) ==
    LET s == ToneSetup(a, frequency) IN
    {"none"} \cup
    (IF ProgrammedRate(s, frequency) <= 0
     THEN {"sample_rate"} \cup (IF s.playing THEN {} ELSE {"play"})
     ELSE {})

\* "if not self._sample.playing: self._sample.play(sample, loop=True)"
PlayLoop(a) ==
    IF a.playing THEN a
    ELSE [a EXCEPT !.playing = TRUE, !.plays = a.plays + 1]

\* start_tone that retunes to the frequency the buffer was first sized for.
start_tone_no_retune(a, frequency, outcome) ==
    LET s == ToneSetup(a, frequency)
        r == [s EXCEPT !.sine_wave_sample =
                 IF a.sample # "None" THEN a.sine_wave_sample
                 ELSE <<ProgrammedRate(s, frequency)>>]
    IN  IF outcome = "sample_rate" THEN [a |-> s, err |-> "library"]
        ELSE IF outcome = "play" THEN [a |-> r, err |-> "library"]
        ELSE [a |-> PlayLoop(r), err |-> "none"]

\* start_tone(frequency) under a library outcome: the fields when it returns
\* or raises, and the error it raises ("none" when it returns).
start_tone(a, frequency, outcome) ==
    LET s == ToneSetup(a, frequency)
        r == [s EXCEPT !.sine_wave_sample = <<ProgrammedRate(s, frequency)>>]
    IN  IF outcome = "sample_rate" THEN [a |-> s, err |-> "library"]
        ELSE IF outcome = "play" THEN [a |-> r, err |-> "library"]
        ELSE [a |-> PlayLoop(r), err |-> "none"]

\* stop_tone that stops the loop but keeps the PWMAudioOut.
stop_tone_no_deinit(a) ==
    [a EXCEPT !.playing = FALSE, !.speaker_enable = FALSE]

\* stop_tone(): stop, deinit and forget self._sample when it is playing, then
\* disable the speaker.  self._sine_wave and self._sine_wave_sample stay.
stop_tone(a) ==
    LET s == IF a.sample # "None" /\ a.playing
             THEN [a EXCEPT !.sample = "None", !.playing = FALSE, !.plays = 0]
             ELSE a
    IN  [s EXCEPT !.speaker_enable = FALSE]

AppReady == constructed = "ok" /\ pc = "ready"

StartTone(frequency, outcome) ==
    /\ AppReady
    /\ outcome \in LibraryOutcomes(audio, frequency)
    /\ audio' = start_tone(audio, frequency, outcome).a
    /\ last' = [op |-> "start_tone", arg |-> frequency,
                err |-> start_tone(audio, frequency, outcome).err,
                from |-> AudioMode(audio)]
    /\ UNCHANGED <<ctorVars, inputVars, pc>>

StopTone ==
    /\ AppReady
    /\ audio' = stop_tone(audio)
    /\ last' = [op |-> "stop_tone", arg |-> 0, err |-> "none", from |-> AudioMode(audio)]
    /\ UNCHANGED <<ctorVars, inputVars, pc>>

\* play_tone(frequency, duration) up to time.sleep(duration); a start_tone that
\* raises ends the call there.
PlayToneCall(frequency, outcome) ==
    /\ AppReady
    /\ outcome \in LibraryOutcomes(audio, frequency)
    /\ audio' = start_tone(audio, frequency, outcome).a
    /\ pc' = IF outcome = "none" THEN "play_tone_sleep" ELSE "ready"
    /\ last' = [op |-> "play_tone", arg |-> frequency,
                err |-> IF outcome = "none" THEN "running" ELSE "library",
                from |-> AudioMode(audio)]
    /\ UNCHANGED <<ctorVars, inputVars>>

\* play_tone after the sleep: stop_tone() and return.
PlayToneWake ==
    /\ pc = "play_tone_sleep"
    /\ audio' = stop_tone(audio)
    /\ pc' = "ready"
    /\ last' = [last EXCEPT !.err = "none"]
    /\ UNCHANGED <<ctorVars, inputVars>>

\* play_file(file_name): stop_tone() and the speaker enabled.
PlayFileCall(f) ==
    /\ AppReady
    /\ audio' = [stop_tone(audio) EXCEPT !.speaker_enable = TRUE]
    /\ pc' = "play_file_acquire"
    /\ last' = [op |-> "play_file", arg |-> f, err |-> "running", from |-> AudioMode(audio)]
    /\ UNCHANGED <<ctorVars, inputVars>>

\* "with audiopwmio.PWMAudioOut(board.SPEAKER) as audio": a pin that is still
\* claimed makes the constructor raise ValueError and play_file ends there.
PlayFileAcquire ==
    /\ pc = "play_file_acquire"
    /\ IF PinInUse(audio)
       THEN /\ pc' = "ready"
            /\ last' = [last EXCEPT !.err = "ValueError"]
            /\ UNCHANGED audio
       ELSE /\ pc' = "play_file_open"
            /\ audio' = [audio EXCEPT !.file = "PWMAudioOut"]
            /\ UNCHANGED last
    /\ UNCHANGED <<ctorVars, inputVars>>

\* WaveFile(open(file_name, "rb")) and audio.play(wavefile); when the file
\* cannot be opened the with block deinit()s audio and the OSError leaves
\* play_file.
PlayFileOpen ==
    /\ pc = "play_file_open"
    /\ IF Playable(last.arg)
       THEN /\ pc' = "play_file_wait"
            /\ audio' = [audio EXCEPT !.file = "playing"]
            /\ UNCHANGED last
       ELSE /\ pc' = "ready"
            /\ audio' = [audio EXCEPT !.file = "None"]
            /\ last' = [last EXCEPT !.err = "OSError"]
    /\ UNCHANGED <<ctorVars, inputVars>>

\* "while audio.playing: pass" ends, the with block deinit()s audio, the
\* speaker is disabled and play_file returns.
PlayFileDone ==
    /\ pc = "play_file_wait"
    /\ audio' = [audio EXCEPT !.file = "None", !.speaker_enable = FALSE]
    /\ pc' = "ready"
    /\ last' = [last EXCEPT !.err = "none"]
    /\ UNCHANGED <<ctorVars, inputVars>>

(***************************************************************************)
(* Specifications                                                          *)
(***************************************************************************)
NoCall == [op |-> "none", arg |-> 0, err |-> "none", from |-> "Idle"]

\* Before MacroPad(...) is called.
Init ==
    /\ constructed = "no"
    /\ rotation = 0
    /\ key_pins = <<>>
    /\ hw = {}
    /\ midi = <<>>
    /\ keys_down = {}
    /\ events = <<>>
    /\ got = <<>>
    /\ encoder_position = 0
    /\ encoder_read = <<>>
    /\ audio = AudioInit
    /\ pc = "ready"
    /\ last = NoCall

\* Right after MacroPad() with its default arguments.
InitDefault ==
    /\ constructed = "ok"
    /\ rotation = 0
    /\ key_pins = KeyTable(0)
    /\ hw = Acquired(0, [tuple |-> FALSE, ch |-> <<0>>])
    /\ midi = << [in_channel |-> 0 - 1, out_channel |-> 0 - 1] >>
    /\ keys_down = {}
    /\ events = <<>>
    /\ got = <<>>
    /\ encoder_position = 0
    /\ encoder_read = <<>>
    /\ audio = AudioInit
    /\ pc = "ready"
    /\ last = [op |-> "__init__", arg |-> 0, err |-> "none", from |-> "Idle"]

NextInput ==
    \/ \E rot \in RotationInputs, mi \in MidiInInputs, mo \in MidiOutInputs :
          Construct(rot, mi, mo)
    \/ \E k \in KeyInputs : KeyTransition(k)
    \/ GetEvent

\* The audio methods, start_tone and play_tone called with a frequency of F.
NextAudioOver(F) ==
    \/ \E f \in F, o \in {"none", "sample_rate", "play"} : StartTone(f, o)
    \/ StopTone
    \/ \E f \in F, o \in {"none", "sample_rate", "play"} : PlayToneCall(f, o)
    \/ PlayToneWake
    \/ \E f \in FileInputs : PlayFileCall(f)
    \/ PlayFileAcquire
    \/ PlayFileOpen
    \/ PlayFileDone

NextAudio == NextAudioOver(FrequencyInputs)

\* Construction and the encoder.
NextEncoder ==
    \/ \E rot \in RotationInputs, mi \in MidiInInputs, mo \in MidiOutInputs :
          Construct(rot, mi, mo)
    \/ \E d \in EncoderDeltas : EncoderTurn(d)
    \/ ReadEncoder

Next == NextInput \/ NextEncoder \/ NextAudio

\* The whole device.  The audio actions read and write only audio, pc and
\* last; the key and encoder actions never read audio; so the claims are checked
\* on the parts below.
Spec == Init /\ [][Next]_vars

\* Construction and key input.
SpecInput == Init /\ [][NextInput]_vars

\* Construction and the rotary encoder.
SpecEncoder == Init /\ [][NextEncoder]_vars

\* The audio methods on a device built with the default arguments.
SpecAudio == InitDefault /\ [][NextAudio]_vars

\* The same with every tone frequency positive and at most the ceiling, where
\* the audio library accepts what start_tone hands it.
SpecAudioInRange == InitDefault /\ [][NextAudioOver(InRangeFrequencies)]_vars

(***************************************************************************)
(* Claims about the audio methods                                          *)
(***************************************************************************)

\* C1 (as claimed): whenever play_file has just returned, or has just raised
\* because the file could not be opened or decoded, the speaker-enable line is
\* disabled and AudioMode is Idle.
C1_PlayFileLeavesSpeakerOff ==
    (pc = "ready" /\ last.op = "play_file" /\ last.err \in {"none", "OSError"})
        => (~audio.speaker_enable /\ AudioMode(audio) = "Idle")

\* C2 (as claimed): every start_tone(frequency) with frequency <= 0 raises an
\* error and leaves the speaker-enable line, the PWMAudioOut handle, the
\* cached waveform and AudioMode as they were before the call.
C2_NonPositiveToneRejected ==
    [][ \A f \in FrequencyInputs, o \in {"none", "sample_rate", "play"} :
          (f <= 0 /\ StartTone(f, o))
             => /\ last'.err # "none"
                /\ audio'.speaker_enable = audio.speaker_enable
                /\ audio'.sample = audio.sample
                /\ audio'.sine_wave = audio.sine_wave
                /\ AudioMode(audio') = AudioMode(audio) ]_vars

\* C3 (as claimed): between API calls the speaker-enable line is enabled
\* exactly when AudioMode is not Idle.
C3_SpeakerIffNotIdle ==
    pc = "ready" => (audio.speaker_enable <=> AudioMode(audio) # "Idle")

\* C4: a tone loop and a file playback are never active together, board.SPEAKER
\* is never claimed by two PWMAudioOut objects at once, and when play_file was
\* called while ToneActive the tone loop is stopped and its PWMAudioOut
\* released by the time play_file goes on to claim the pin for the file.
C4_ToneAndFileExclusive ==
    /\ ~(audio.playing /\ audio.file # "None")
    /\ ~(audio.sample # "None" /\ audio.file # "None")
    /\ (pc = "play_file_acquire" /\ last.from = "ToneActive")
          => (audio.sample = "None" /\ ~audio.playing /\ audio.file = "None")

\* C4 witness: play_file, called while a tone was active, is playing its file.
C4_Witness ==
    /\ last.op = "play_file"
    /\ last.from = "ToneActive"
    /\ pc = "play_file_wait"
    /\ audio.file = "playing"

\* C5 (as claimed): whenever stop_tone has just returned, the speaker-enable
\* line is disabled, no tone is playing and self._sample has been released.
C5_StopToneReleases ==
    (pc = "ready" /\ last.op = "stop_tone")
        => (~audio.speaker_enable /\ ~audio.playing /\ audio.sample = "None")

\* What C6 requires of the state a second start_tone(f2) leaves: one tone
\* loop, started once, whose sample rate over its buffer length is f2.
RetunedTo(a, f2) ==
    /\ AudioMode(a) = "ToneActive"
    /\ a.plays = 1
    /\ a.sine_wave[1] > 0
    /\ a.sine_wave_sample[1] = a.sine_wave[1] * f2

\* C6 (as claimed): for all positive f1 and f2, start_tone(f2) made right
\* after start_tone(f1) leaves one tone loop retuned to f2.
C6_RetuneAnyPositive ==
    [][ \A f2 \in FrequencyInputs, o \in {"none", "sample_rate", "play"} :
          (last.op = "start_tone" /\ last.arg > 0 /\ f2 > 0 /\ StartTone(f2, o))
             => RetunedTo(audio', f2) ]_vars

\* C6 (amended): the same for all positive f1 and f2 when the waveform buffer
\* in use after start_tone(f1) is not empty, that is when it was generated for
\* a frequency of at most RateCeiling.
C6_RetuneNonEmptyBuffer ==
    [][ \A f2 \in FrequencyInputs, o \in {"none", "sample_rate", "play"} :
          (last.op = "start_tone" /\ last.arg > 0 /\ audio.sine_wave[1] > 0
             /\ f2 > 0 /\ StartTone(f2, o))
             => RetunedTo(audio', f2) ]_vars

\* C6 witness: a tone at 440 Hz is playing from the 70-sample buffer that an
\* earlier start_tone(5000) generated.
C6_Witness ==
    /\ pc = "ready"
    /\ last.op = "start_tone"
    /\ last.arg = 440
    /\ last.from = "ToneActive"
    /\ audio.sine_wave = <<70>>
    /\ RetunedTo(audio, 440)

(***************************************************************************)
(* Claims about construction and keys (checked under SpecInput)            *)
(***************************************************************************)

\* The key table read as a map on 0..11: logical index i to the 0-based
\* physical index of the key listed at position i.
Perm(i) == key_pins[i + 1] - 1

\* C7: for each supported rotation the key table lists every one of KEY1..KEY12
\* at exactly one of its 12 positions.
C7_KeyTableBijection ==
    key_pins # <<>>
        => /\ Len(key_pins) = 12
           /\ \A n \in 1..12 : Cardinality({i \in 1..Len(key_pins) : key_pins[i] = n}) = 1

\* C7 witness: a device built with the last of the four tables.
C7_Witness == constructed = "ok" /\ rotation = 270 /\ key_pins[1] = 10

\* C8 (as claimed): the rotation-90 table composed with itself four times is
\* the identity on 0..11.
C8_FourfoldIdentity ==
    (constructed = "ok" /\ rotation = 90)
        => \A i \in 0..11 : Perm(Perm(Perm(Perm(i)))) = i

\* C8 (amended): the rotation-90 table composed with itself three times is the
\* identity on 0..11.
C8_ThreefoldIdentity ==
    (constructed = "ok" /\ rotation = 90)
        => \A i \in 0..11 : Perm(Perm(Perm(i))) = i

\* C8 witness: a device built with rotation 90, whose table starts at KEY3.
C8_Witness == constructed = "ok" /\ rotation = 90 /\ Perm(0) = 2

\* The device of the C9 scenario: MacroPad(rotation=90, midi_in_channel=1,
\* midi_out_channel=1).
Scenario90 ==
    /\ constructed = "ok"
    /\ rotation = 90
    /\ midi = << [in_channel |-> 0, out_channel |-> 0] >>

\* C9 (as claimed): on that device a press of physical key 3 is queued for the
\* application with key number 0.
C9_Key3IsLogical0 ==
    [][ (Scenario90 /\ 3 \notin keys_down /\ 3 \in keys_down')
           => events'[Len(events')] = [key_number |-> 0, pressed |-> TRUE] ]_vars

\* C9 (amended): on that device a press of physical key 3 is queued for the
\* application with key number 9.
C9_Key3IsLogical9 ==
    [][ (Scenario90 /\ 3 \notin keys_down /\ 3 \in keys_down')
           => events'[Len(events')] = [key_number |-> 9, pressed |-> TRUE] ]_vars

\* C9 witness: the application has read the press of physical key 3, still
\* held down, as key number 9.
C9_Witness ==
    /\ Scenario90
    /\ keys_down = {3}
    /\ last.op = "events.get"
    /\ got = << [key_number |-> 9, pressed |-> TRUE] >>

\* C10: a construction with an unsupported rotation raises ValueError with no
\* hardware acquired or written.
C10_BadRotationTouchesNothing ==
    (constructed # "no" /\ rotation \notin SupportedRotations)
        => (constructed = "failed" /\ last.err = "ValueError" /\ hw = {})

\* C10 witness: MacroPad(rotation=999) has raised.
C10_Witness ==
    /\ constructed = "failed"
    /\ rotation = 999
    /\ last.op = "__init__"
    /\ last.err = "ValueError"

\* C11 (as claimed): a construction with a supported rotation, an output
\* channel in 1..16 and an input given as one channel in 1..16 or as a tuple of
\* such channels succeeds and hands adafruit_midi.MIDI each channel minus 1.
C11_MidiChannelsZeroBased ==
    [][ \A rot \in SupportedRotations, mi \in MidiInInputs, mo \in MidiOutInputs :
          ( /\ mo \in MidiChannels
            /\ \A i \in 1..Len(mi.ch) : mi.ch[i] \in MidiChannels
            /\ Construct(rot, mi, mo) )
             => /\ constructed' = "ok"
                /\ midi' # <<>>
                /\ midi'[1].out_channel = mo - 1
                /\ midi'[1].in_channel =
                      IF mi.tuple THEN [i \in 1..Len(mi.ch) |-> mi.ch[i] - 1]
                      ELSE mi.ch[1] - 1 ]_vars

(***************************************************************************)
(* Claims about the encoder (checked under SpecEncoder)                    *)
(***************************************************************************)

\* C12: the reported position is 0 right after construction; every raw delta d
\* changes what macropad.encoder reports by exactly -d; and a read returns the
\* negation of the raw position and leaves the raw position as it was.
C12_EncoderInverted ==
    [][ /\ (constructed = "no" /\ constructed' = "ok")
             => (encoder_position' = 0 /\ Encoder(encoder_position') = 0)
        /\ \A d \in EncoderDeltas :
             EncoderTurn(d) => Encoder(encoder_position') = Encoder(encoder_position) - d
        /\ ReadEncoder
             => /\ encoder_read' = << 0 - encoder_position >>
                /\ encoder_position' = encoder_position ]_vars

\* C12 witness: the knob stands two raw steps up and the application has just
\* read -2.
C12_Witness ==
    /\ constructed = "ok"
    /\ last.op = "encoder"
    /\ encoder_position = 2
    /\ encoder_read = << 0 - 2 >>

(***************************************************************************)
(* Claim about the tone sample rate (checked under SpecAudioInRange)       *)
(***************************************************************************)

\* C13 (as claimed): whenever start_tone has just returned for a positive
\* frequency, the length of the waveform buffer in use times that frequency is
\* at most RateCeiling.
C13_RateWithinCeiling ==
    (pc = "ready" /\ last.op = "start_tone" /\ last.arg > 0 /\ last.err = "none")
        => /\ audio.sine_wave[1] * last.arg <= RateCeiling
           /\ audio.sine_wave_sample[1] <= RateCeiling

====
